---- MODULE Spec2Model ----
(***************************************************************************)
(* Model of the disaster-recovery monitor of src/src/index.ts: the control *)
(* loop startMonitoring, the activity probe checkRecentSales, the dialog   *)
(* showDialog, the capture createVolumeBackup / registerBackup, and the    *)
(* restore restoreLatestBackup, together with the backups collection, the  *)
(* backup directory and the database container they act on.                *)
(*                                                                         *)
(* One action per await / subprocess call of the code; an exception thrown *)
(* in the try block of startMonitoring is a step to pc = "catch".          *)
(***************************************************************************)
EXTENDS Integers, Sequences, FiniteSets, TLC

\* ---------------------------------------------------------------- bounds
\* Largest number of documents the backups collection holds in the model.
MaxRecords == 2
\* Wall-clock readings are 0..MaxTime (half-second ticks of Date.now()).
MaxTime == 1
\* Largest number of recent sales countDocuments can report.
MaxSales == 3

\* ------------------------------------------------------ program constants
\* CONFIG.CHECK_INTERVAL default, ms.
CHECK_INTERVAL == 300000
\* delay(10000) in the catch of startMonitoring, ms.
RETRY_DELAY == 10000
\* delay(3000) after docker stop, ms.
STOP_DELAY == 3000
\* Clock ticks per second: format(..., "yyyyMMdd-HHmmss") drops the
\* sub-second part of the instant that createdAt keeps.
TicksPerSecond == 2

Times == 0..MaxTime
Counts == 0..MaxSales
\* Exit status of the zenity shell command: 0 = "Sí", 1 = "No",
\* 127 = the shell could not find / launch the tool.
DialogExits == {0, 1, 127}
\* Output of `du -m path | cut -f1`: <<>> is empty output, <<n>> is "n".
DuOutputs == {<<>>, <<0>>, <<1>>}
Statuses == {"created", "restored", "failed"}

VARIABLES
    pc,           \* position of startMonitoring and of the call it is in
    catalog,      \* backups collection, in insertion order
    files,        \* archives written completely to BACKUP_DIR
    container,    \* state of the container CONTAINER_NAME
    dbInContainer,\* deployment: MONGO_URI is served by CONTAINER_NAME
    now,          \* the instant new Date() gave the capture in progress
    openConns,    \* MongoClient connections currently open
    hasSales,     \* local of startMonitoring
    hasProblems,  \* local of startMonitoring
    backup,       \* local of restoreLatestBackup: <<>> is null
    backupFile,   \* local of createVolumeBackup: <<>> before it is set
    obs           \* what the current iteration did (history)

vars == <<pc, catalog, files, container, dbInContainer, now, openConns,
          hasSales, hasProblems, backup, backupFile, obs>>

\* ------------------------------------------------------------- helpers
Range(s) == {s[i] : i \in DOMAIN s}

\* format(new Date(), "yyyyMMdd-HHmmss"): the instant truncated to seconds.
timestamp(t) == t \div TicksPerSecond

\* `backup-${timestamp}.gz`
BackupFileName(t) == <<"backup", timestamp(t), "gz">>

\* join(CONFIG.BACKUP_DIR, backupFile)
BackupPath(f) == <<"BACKUP_DIR">> \o f

\* parseInt(statsStr) || 0
getFileStats(out) == IF out = <<>> THEN 0 ELSE out[1]

\* The document registerBackup inserts.
NewRecord(id, f, t, out) ==
    [_id |-> id, filename |-> f, path |-> BackupPath(f), createdAt |-> t,
     sizeMB |-> getFileStats(out), status |-> "created"]

\* Mutant: an upsert keyed by filename in the place of the insert.
InsertOneUpsert(cat, f, t, out) ==
    IF \E i \in DOMAIN cat : cat[i].filename = f
    THEN [i \in DOMAIN cat |->
            IF cat[i].filename = f THEN NewRecord(cat[i]._id, f, t, out)
            ELSE cat[i]]
    ELSE Append(cat, NewRecord(Len(cat) + 1, f, t, out))

\* collection.insertOne(doc): the driver assigns the next identity.
InsertOne(cat, f, t, out) == Append(cat, NewRecord(Len(cat) + 1, f, t, out))

\* return count > 0
countResult(count) == count > 0

\* Mutant: the polarity of the dialog inverted.
showDialogInverted(exit) == exit # 0

\* showDialog: true when execSync returns (exit 0), false when it throws.
showDialog(exit) == exit = 0

\* The server at MONGO_URI answers only while its host runs.
DbUp == (~dbInContainer) \/ container = "running"

\* Mutant: the connection left open.
CloseLeaking(n) == n

\* finally { await client.close(); } on a connected client.
Close(n) == n - 1

\* ------------------------------------------------- the backups collection
\* Filter { status: "created" }: the positions of the matching documents.
MatchCreated(cat) == {i \in DOMAIN cat : cat[i].status = "created"}

\* Mutant: the sort ascending, so that the oldest match comes first.
SortFirstAscending(cat, matching) ==
    {i \in matching : \A k \in matching : cat[i].createdAt <= cat[k].createdAt}

\* Sort { createdAt: -1 }, first document: the positions the server may
\* return.  Documents with equal sort keys come in no specified order.
SortFirst(cat, matching) ==
    {i \in matching : \A k \in matching : cat[k].createdAt <= cat[i].createdAt}

\* collection.findOne({status: "created"}, {sort: {createdAt: -1}}):
\* the results the call may produce, <<>> standing for null.
FindOne(cat) ==
    IF MatchCreated(cat) = {}
    THEN {<<>>}
    ELSE {<<cat[i]>> : i \in SortFirst(cat, MatchCreated(cat))}

\* Mutant: the update without its _id filter.
UpdateEvery(cat, id) ==
    [i \in DOMAIN cat |-> [cat[i] EXCEPT !.status = "restored"]]

\* collection.updateOne({_id: id}, {$set: {status: "restored"}})
UpdateOne(cat, id) ==
    [i \in DOMAIN cat |->
        IF cat[i]._id = id THEN [cat[i] EXCEPT !.status = "restored"]
        ELSE cat[i]]

\* ------------------------------------------------------ control flow
\* Mutant: the dialog shown whatever the probe returned.
AfterProbeUngated(hs) == "dialog"

\* if (!hasSales) { dialog ... } ; await this.delay(CHECK_INTERVAL)
AfterProbe(hs) == IF ~hs THEN "dialog" ELSE "delay"

\* if (hasProblems) restoreLatestBackup() else createVolumeBackup()
AfterDialog(hp) == IF hp THEN "restore" ELSE "capture"

\* Mutant: checkRecentSales swallowing its error and reporting no sales.
AfterProbeErrorSwallowed == "dialog"

\* checkRecentSales threw (no catch of its own): the catch of the loop.
AfterProbeError == "catch"

\* Mutant: the null check on the selected backup missing.
AfterFindOneUnchecked(b) == "stop"

\* if (!backup) throw new Error("No hay backups disponibles")
AfterFindOne(b) == IF b = <<>> THEN "catch" ELSE "stop"

\* Mutant: the failure of docker stop ignored.
AfterStopErrorIgnored == "quiesce"

\* execSync(docker stop) threw: catch, log, rethrow to startMonitoring.
AfterStopError == "catch"

\* Mutant: the failure of the restore tool ignored.
AfterRunErrorIgnored == "update"

\* execSync(restoreCmd) threw: catch, log, rethrow to startMonitoring.
AfterRunError == "catch"

\* Mutant: the else missing, the capture runs after the restore.
AfterRestoreFallThrough == "capture"

\* restoreLatestBackup returned: the else branch is skipped.
AfterRestore == "delay"

\* createVolumeBackup returned.
AfterCapture == "delay"

\* Mutant: the failure of the dump swallowed, the capture goes on.
AfterDumpErrorSwallowed == "write"

\* execSync(mongodump) threw: catch, log, rethrow to startMonitoring.
AfterDumpError == "catch"

\* Mutant: the failure of the write swallowed, the capture goes on.
AfterWriteErrorSwallowed == "register"

\* writeFileSync threw: catch, log, rethrow to startMonitoring.
AfterWriteError == "catch"

\* Mutant: the catch block rethrowing, which ends startMonitoring.
AfterCatchRethrow == "exit"

\* The catch block ends inside while (true): the next iteration.
AfterCatch == "probe"

\* Mutant: the catch block sleeping the full interval.
CatchDelayFullInterval == CHECK_INTERVAL

\* The delay the catch block of startMonitoring awaits.
CatchDelayMs == RETRY_DELAY

\* The delay the try block of startMonitoring awaits.
TryDelayMs == CHECK_INTERVAL

\* ------------------------------------------------------------ history
\* The dialog's exit status: <<>> until the dialog has been shown.
NoExit == <<>>

FreshObs ==
    [probe |-> "none", exit |-> NoExit, dialogCalls |-> 0,
     restoreCalls |-> 0, captureCalls |-> 0, stopCalls |-> 0,
     startCalls |-> 0, runCalls |-> 0, delays |-> <<>>, failed |-> "none",
     catalog0 |-> catalog, container0 |-> container]

Threw(step) == [obs EXCEPT !.failed = step]

\* ---------------------------------------------------------------- Init
\* A document the collection may hold when the agent starts: left by an
\* earlier run of the agent, or marked failed by the operator.
OldRecord(t, st) ==
    [_id |-> 1, filename |-> BackupFileName(t), path |-> BackupPath(BackupFileName(t)),
     createdAt |-> t, sizeMB |-> 1, status |-> st]

InitialCatalogs == {<<>>} \cup {<<OldRecord(0, st)>> : st \in Statuses}

Init ==
    /\ pc = "probe"
    /\ catalog \in InitialCatalogs
    /\ files = {r.filename : r \in Range(catalog)}
    /\ container = "running"
    /\ dbInContainer \in BOOLEAN
    /\ now = 0
    /\ openConns = 0
    /\ hasSales = FALSE
    /\ hasProblems = FALSE
    /\ backup = <<>>
    /\ backupFile = <<>>
    /\ obs = FreshObs

\* ------------------------------------------------- checkRecentSales
\* startMonitoring enters the try block and calls checkRecentSales:
\* new MongoClient; await client.connect().
ProbeConnect ==
    /\ pc = "probe"
    /\ hasSales' = FALSE
    /\ hasProblems' = FALSE
    /\ backup' = <<>>
    /\ backupFile' = <<>>
    /\ \/ /\ DbUp
          /\ openConns' = openConns + 1
          /\ pc' = "count"
          /\ obs' = FreshObs
       \/ /\ pc' = AfterProbeError
          /\ obs' = [FreshObs EXCEPT !.probe = "error", !.failed = "probe"]
          /\ UNCHANGED openConns
    /\ UNCHANGED <<catalog, files, container, dbInContainer, now>>

\* countDocuments({createdAt: {$gte: fiveMinutesAgo}}); return count > 0;
\* finally client.close().
ProbeCount ==
    /\ pc = "count"
    /\ openConns' = Close(openConns)
    /\ \/ /\ DbUp
          /\ \E count \in Counts :
                /\ hasSales' = countResult(count)
                /\ obs' = [obs EXCEPT !.probe =
                              IF countResult(count) THEN "sales" ELSE "quiet"]
                /\ pc' = AfterProbe(countResult(count))
       \/ /\ pc' = AfterProbeError
          /\ obs' = [obs EXCEPT !.probe = "error", !.failed = "probe"]
          /\ UNCHANGED hasSales
    /\ UNCHANGED <<catalog, files, container, dbInContainer, now,
                   hasProblems, backup, backupFile>>

\* ---------------------------------------------------------- showDialog
\* execSync("zenity --question ..."): returns on exit 0, throws otherwise;
\* the throw is swallowed and becomes false.
ShowDialog ==
    /\ pc = "dialog"
    /\ \E exit \in DialogExits :
          /\ hasProblems' = showDialog(exit)
          /\ obs' = [obs EXCEPT !.exit = <<exit>>, !.dialogCalls = @ + 1]
          /\ pc' = AfterDialog(showDialog(exit))
    /\ UNCHANGED <<catalog, files, container, dbInContainer, now, openConns,
                   hasSales, backup, backupFile>>

\* ------------------------------------------------ restoreLatestBackup
\* new MongoClient; await client.connect().  A failed connect is logged,
\* rethrown, and close() in the finally finds nothing open.
RestoreConnect ==
    /\ pc = "restore"
    /\ \/ /\ DbUp
          /\ openConns' = openConns + 1
          /\ pc' = "findOne"
          /\ obs' = [obs EXCEPT !.restoreCalls = @ + 1]
       \/ /\ pc' = "catch"
          /\ obs' = [obs EXCEPT !.restoreCalls = @ + 1, !.failed = "connect"]
          /\ UNCHANGED openConns
    /\ UNCHANGED <<catalog, files, container, dbInContainer, now,
                   hasSales, hasProblems, backup, backupFile>>

\* const backup = await collection.findOne(...); if (!backup) throw.
RestoreFindOne ==
    /\ pc = "findOne"
    /\ \/ /\ DbUp
          /\ \E b \in FindOne(catalog) :
                /\ backup' = b
                /\ pc' = AfterFindOne(b)
                /\ IF AfterFindOne(b) = "catch"
                   THEN /\ obs' = Threw("noBackup")
                        /\ openConns' = Close(openConns)
                   ELSE UNCHANGED <<obs, openConns>>
       \/ /\ pc' = "catch"
          /\ obs' = Threw("findOne")
          /\ openConns' = Close(openConns)
          /\ UNCHANGED backup
    /\ UNCHANGED <<catalog, files, container, dbInContainer, now,
                   hasSales, hasProblems, backupFile>>

\* execSync(`docker stop ${CONFIG.CONTAINER_NAME}`)
RestoreStop ==
    /\ pc = "stop"
    /\ \/ /\ container' = "stopped"
          /\ pc' = "quiesce"
          /\ obs' = [obs EXCEPT !.stopCalls = @ + 1]
          /\ UNCHANGED openConns
       \/ /\ pc' = AfterStopError
          /\ obs' = [obs EXCEPT !.stopCalls = @ + 1, !.failed = "stop"]
          /\ openConns' = Close(openConns)
          /\ UNCHANGED container
    /\ UNCHANGED <<catalog, files, dbInContainer, now,
                   hasSales, hasProblems, backup, backupFile>>

\* await this.delay(3000)
RestoreQuiesce ==
    /\ pc = "quiesce"
    /\ pc' = "mongorestore"
    /\ obs' = [obs EXCEPT !.delays = Append(@, STOP_DELAY)]
    /\ UNCHANGED <<catalog, files, container, dbInContainer, now, openConns,
                   hasSales, hasProblems, backup, backupFile>>

\* execSync(restoreCmd): docker run --rm ... mongorestore --archive=...
RestoreRun ==
    /\ pc = "mongorestore"
    /\ \/ /\ pc' = "update"
          /\ obs' = [obs EXCEPT !.runCalls = @ + 1]
          /\ UNCHANGED openConns
       \/ /\ pc' = AfterRunError
          /\ obs' = [obs EXCEPT !.runCalls = @ + 1, !.failed = "mongorestore"]
          /\ openConns' = Close(openConns)
    /\ UNCHANGED <<catalog, files, container, dbInContainer, now,
                   hasSales, hasProblems, backup, backupFile>>

\* await collection.updateOne({_id: backup._id}, {$set: {status: "restored"}})
RestoreUpdate ==
    /\ pc = "update"
    /\ \/ /\ DbUp
          /\ catalog' = UpdateOne(catalog, backup[1]._id)
          /\ pc' = "start"
          /\ UNCHANGED <<obs, openConns>>
       \/ /\ pc' = "catch"
          /\ obs' = Threw("updateOne")
          /\ openConns' = Close(openConns)
          /\ UNCHANGED catalog
    /\ UNCHANGED <<files, container, dbInContainer, now,
                   hasSales, hasProblems, backup, backupFile>>

\* execSync(`docker start ${CONFIG.CONTAINER_NAME}`); finally client.close().
RestoreStart ==
    /\ pc = "start"
    /\ openConns' = Close(openConns)
    /\ \/ /\ container' = "running"
          /\ pc' = AfterRestore
          /\ obs' = [obs EXCEPT !.startCalls = @ + 1]
       \/ /\ pc' = "catch"
          /\ obs' = [obs EXCEPT !.startCalls = @ + 1, !.failed = "start"]
          /\ UNCHANGED container
    /\ UNCHANGED <<catalog, files, dbInContainer, now,
                   hasSales, hasProblems, backup, backupFile>>

\* ------------------------------------------------- createVolumeBackup
\* timestamp, backupFile, backupPath; execSync(`docker exec ... mongodump`).
\* new Date() is the wall clock, which is not monotonic (it can be set or
\* stepped back between two captures): it reads any instant.
CaptureDump ==
    /\ pc = "capture"
    /\ \E t \in Times :
          /\ now' = t
          /\ backupFile' = BackupFileName(t)
    /\ \/ /\ container = "running"
          /\ pc' = "write"
          /\ obs' = [obs EXCEPT !.captureCalls = @ + 1]
       \/ /\ pc' = AfterDumpError
          /\ obs' = [obs EXCEPT !.captureCalls = @ + 1, !.failed = "dump"]
    /\ UNCHANGED <<catalog, files, container, dbInContainer, openConns,
                   hasSales, hasProblems, backup>>

\* writeFileSync(backupPath, dump): the archive is complete when it returns.
CaptureWrite ==
    /\ pc = "write"
    /\ \/ /\ files' = files \cup {backupFile}
          /\ pc' = "register"
          /\ UNCHANGED obs
       \/ /\ pc' = AfterWriteError
          /\ obs' = Threw("write")
          /\ UNCHANGED files
    /\ UNCHANGED <<catalog, container, dbInContainer, now, openConns,
                   hasSales, hasProblems, backup, backupFile>>

\* registerBackup: new MongoClient; await client.connect().
RegisterConnect ==
    /\ pc = "register"
    /\ \/ /\ DbUp
          /\ openConns' = openConns + 1
          /\ pc' = "insert"
          /\ UNCHANGED obs
       \/ /\ pc' = "catch"
          /\ obs' = Threw("connect")
          /\ UNCHANGED openConns
    /\ UNCHANGED <<catalog, files, container, dbInContainer, now,
                   hasSales, hasProblems, backup, backupFile>>

\* registerBackup: getFileStats(path); insertOne({...}); finally close().
\* The collection is bounded: an insert into a full one fails.
RegisterInsert ==
    /\ pc = "insert"
    /\ openConns' = Close(openConns)
    /\ \/ /\ DbUp
          /\ Len(catalog) < MaxRecords
          /\ \E out \in DuOutputs :
                catalog' = InsertOne(catalog, backupFile, now, out)
          /\ pc' = AfterCapture
          /\ UNCHANGED obs
       \/ /\ pc' = "catch"
          /\ obs' = Threw("insertOne")
          /\ UNCHANGED catalog
    /\ UNCHANGED <<files, container, dbInContainer, now,
                   hasSales, hasProblems, backup, backupFile>>

\* ------------------------------------------------------ startMonitoring
\* await this.delay(CONFIG.CHECK_INTERVAL): the end of the try block.
\* The instant the capture read goes out of scope with the iteration.
Delay ==
    /\ pc = "delay"
    /\ pc' = "probe"
    /\ obs' = [obs EXCEPT !.delays = Append(@, TryDelayMs)]
    /\ now' = 0
    /\ UNCHANGED <<catalog, files, container, dbInContainer, openConns,
                   hasSales, hasProblems, backup, backupFile>>

\* catch (error) { logger.error(...); await this.delay(10000); }
CatchDelay ==
    /\ pc = "catch"
    /\ pc' = AfterCatch
    /\ obs' = [obs EXCEPT !.delays = Append(@, CatchDelayMs)]
    /\ now' = 0
    /\ UNCHANGED <<catalog, files, container, dbInContainer, openConns,
                   hasSales, hasProblems, backup, backupFile>>

Next ==
    \/ ProbeConnect
    \/ ProbeCount
    \/ ShowDialog
    \/ RestoreConnect
    \/ RestoreFindOne
    \/ RestoreStop
    \/ RestoreQuiesce
    \/ RestoreRun
    \/ RestoreUpdate
    \/ RestoreStart
    \/ CaptureDump
    \/ CaptureWrite
    \/ RegisterConnect
    \/ RegisterInsert
    \/ Delay
    \/ CatchDelay

Spec == Init /\ [][Next]_vars

\* The agent is one sequential task: the timers fire, the subprocesses
\* return and the operator answers, so the step it is at is taken.
FairSpec == Spec /\ WF_vars(Next)

\* SIGTERM / SIGINT: the program installs no handler, so the default
\* disposition ends the process wherever it is, in a delay or in the wait
\* for a subprocess; the operating system closes its connections.
Terminate ==
    /\ pc # "exit"
    /\ pc' = "exit"
    /\ openConns' = 0
    /\ UNCHANGED <<catalog, files, container, dbInContainer, now,
                   hasSales, hasProblems, backup, backupFile, obs>>

NextSignals ==
    \/ Next
    \/ Terminate

SpecSignals == Init /\ [][NextSignals]_vars

TypeOK ==
    /\ pc \in {"probe", "count", "dialog", "restore", "findOne", "stop",
               "quiesce", "mongorestore", "update", "start", "capture",
               "write", "register", "insert", "delay", "catch"}
    /\ Len(catalog) <= MaxRecords
    /\ \A i \in DOMAIN catalog :
          catalog[i]._id = i /\ catalog[i].status \in Statuses
    /\ container \in {"running", "stopped"}
    /\ now \in Times
    /\ openConns \in 0..1

\* =================================================================
\* Properties
\* =================================================================
\* The operator's answer as the dialog's exit status tells it.
Yes == obs.exit = <<0>>
No == obs.exit = <<1>>
Unavailable == obs.exit \notin {NoExit, <<0>>, <<1>>}

\* The iteration has reached, or has finished, its closing sleep.
AtSleep == pc \in {"delay", "catch"}
Slept == pc = "probe" /\ obs.probe # "none"

LastDelay == obs.delays[Len(obs.delays)]

RECURSIVE SumDelays(_)
SumDelays(d) == IF d = <<>> THEN 0 ELSE d[1] + SumDelays(Tail(d))

CreatedIn(cat) == {i \in DOMAIN cat : cat[i].status = "created"}

\* C1: in an iteration whose probe is quiet, a Yes answer leads to exactly
\* one call of restoreLatestBackup and none of createVolumeBackup, a No
\* answer to exactly one call of createVolumeBackup and none of
\* restoreLatestBackup.
C1_DialogPolarity ==
    /\ Yes => obs.captureCalls = 0 /\ obs.restoreCalls <= 1
    /\ No => obs.restoreCalls = 0 /\ obs.captureCalls <= 1
    /\ (obs.probe = "quiet" /\ (AtSleep \/ Slept)) =>
          /\ obs.dialogCalls = 1
          /\ Yes => obs.restoreCalls = 1 /\ obs.captureCalls = 0
          /\ No => obs.captureCalls = 1 /\ obs.restoreCalls = 0

C1_Witness ==
    /\ pc = "delay"
    /\ obs.probe = "quiet"
    /\ Yes
    /\ obs.restoreCalls = 1
    /\ obs.startCalls = 1

\* C2: when the dialog tool cannot be launched (neither exit 0 nor exit 1),
\* neither createVolumeBackup nor restoreLatestBackup is called in that
\* iteration.
C2_UnavailableSkipsTick ==
    Unavailable => obs.captureCalls = 0 /\ obs.restoreCalls = 0

\* C3: when the probe returns true, the dialog is not shown and neither
\* createVolumeBackup nor restoreLatestBackup is called in that iteration.
C3_ActivityGatesAction ==
    /\ hasSales => obs.probe = "sales"
    /\ obs.probe = "sales" =>
          /\ obs.dialogCalls = 0
          /\ obs.exit = NoExit
          /\ obs.captureCalls = 0
          /\ obs.restoreCalls = 0
          /\ pc \in {"delay", "probe"}

C3_Witness ==
    /\ Slept
    /\ obs.probe = "sales"
    /\ obs.delays = <<CHECK_INTERVAL>>

\* C4: in every iteration, whatever the probe, the dialog and the failures
\* of subprocesses and database, at most one of createVolumeBackup and
\* restoreLatestBackup starts.
C4_MutualExclusion ==
    /\ obs.captureCalls + obs.restoreCalls <= 1
    /\ pc \in {"findOne", "stop", "quiesce", "mongorestore", "update", "start"}
          => obs.restoreCalls = 1 /\ obs.captureCalls = 0
    /\ pc \in {"write", "register", "insert"}
          => obs.captureCalls = 1 /\ obs.restoreCalls = 0

C4_Witness ==
    /\ pc = "catch"
    /\ obs.captureCalls = 1
    /\ obs.failed = "insertOne"

\* C5: the document the restore selects has status "created" and the
\* greatest createdAt among the documents with status "created" of the
\* collection as it was when selected; when no document has status
\* "created" the restore throws with nothing selected.
C5_RestoreSelection ==
    /\ backup # <<>> =>
          /\ \E i \in CreatedIn(obs.catalog0) : obs.catalog0[i] = backup[1]
          /\ \A i \in CreatedIn(obs.catalog0) :
                obs.catalog0[i].createdAt <= backup[1].createdAt
    /\ pc \in {"stop", "quiesce", "mongorestore", "update", "start"}
          => backup # <<>>
    /\ obs.failed = "noBackup" =>
          /\ CreatedIn(obs.catalog0) = {}
          /\ backup = <<>>
          /\ obs.stopCalls = 0

C5_Witness ==
    /\ pc = "stop"
    /\ \E i \in DOMAIN catalog :
          /\ catalog[i].status # "created"
          /\ catalog[i].createdAt > backup[1].createdAt

\* C6: when several documents with status "created" share the greatest
\* createdAt, the restore selects the one with the largest _id.
C6_TieBreakLargestId ==
    (pc = "stop" /\ backup # <<>>) =>
        \A i \in CreatedIn(catalog) :
            catalog[i].createdAt = backup[1].createdAt
                => catalog[i]._id <= backup[1]._id

\* C7: a step changes the status of a document only from "created" to
\* "restored", removes no document, and inserts documents with status
\* "created" only.
C7_StatusStep ==
    /\ Len(catalog') >= Len(catalog)
    /\ \A i \in DOMAIN catalog :
          catalog'[i].status # catalog[i].status
              => catalog[i].status = "created" /\ catalog'[i].status = "restored"
    /\ \A i \in DOMAIN catalog' \ DOMAIN catalog :
          catalog'[i].status = "created"

C7_StatusMonotone == [][C7_StatusStep]_vars

C7_Witness ==
    /\ Len(catalog) = 2
    /\ catalog[1].status = "failed"
    /\ catalog[2].status = "restored"
    /\ obs.catalog0[2].status = "created"

\* C8: an iteration ends with one sleep before the next probe: of the
\* check interval when nothing was thrown, of the 10 s retry delay when an
\* exception was caught; so two probes are at least the retry delay apart
\* when the tick between them threw.
C8_OneSleepPerIteration ==
    /\ ~Slept => obs.delays \in {<<>>, <<STOP_DELAY>>}
    /\ pc = "delay" => obs.failed = "none"
    /\ pc = "catch" => obs.failed # "none"
    /\ Slept =>
          /\ obs.delays # <<>>
          /\ SubSeq(obs.delays, 1, Len(obs.delays) - 1) \in {<<>>, <<STOP_DELAY>>}
          /\ LastDelay = (IF obs.failed = "none" THEN CHECK_INTERVAL
                          ELSE RETRY_DELAY)
          /\ obs.failed # "none" => SumDelays(obs.delays) >= RETRY_DELAY

C8_Witness ==
    /\ Slept
    /\ obs.failed = "mongorestore"
    /\ obs.delays = <<STOP_DELAY, RETRY_DELAY>>

\* C9 as stated: quiet probe, Yes answer, no document with status
\* "created": the restore reports that no backup is available, the
\* container is never stopped, and the loop sleeps the check interval.
C9_NoSnapshotSleepsInterval ==
    (Slept /\ obs.probe = "quiet" /\ Yes /\ obs.failed = "noBackup") =>
        obs.stopCalls = 0 /\ LastDelay = CHECK_INTERVAL

\* C9 amended: quiet probe, Yes answer, no document with status "created":
\* the container is never stopped, the restore throws (no backup available
\* when the collection could be read), the collection is unchanged, and
\* the loop sleeps the 10 s retry delay.
C9_NoSnapshotSleepsRetry ==
    (obs.probe = "quiet" /\ Yes /\ CreatedIn(obs.catalog0) = {}) =>
        /\ obs.stopCalls = 0
        /\ container = obs.container0
        /\ catalog = obs.catalog0
        /\ pc \in {"restore", "findOne", "catch", "probe"}
        /\ pc \in {"catch", "probe"} =>
              obs.failed \in {"connect", "findOne", "noBackup"}
        /\ Slept => obs.delays = <<RETRY_DELAY>>

C9_Witness ==
    /\ Slept
    /\ obs.probe = "quiet"
    /\ Yes
    /\ obs.failed = "noBackup"
    /\ obs.delays = <<RETRY_DELAY>>

\* C10: when the dump or the write of the archive fails, no document is
\* inserted in that iteration, the exception reaches the catch of the
\* loop, and the loop is back at its probe with the collection, the
\* container and the connections as they were before the tick.
C10_CaptureFailureLeavesCatalog ==
    obs.failed \in {"dump", "write"} =>
        /\ catalog = obs.catalog0
        /\ container = obs.container0
        /\ openConns = 0
        /\ obs.captureCalls = 1
        /\ pc \in {"catch", "probe"}
        /\ Slept => obs.delays = <<RETRY_DELAY>>

C10_Witness ==
    /\ Slept
    /\ obs.failed = "write"
    /\ Len(catalog) > 0
    /\ catalog = obs.catalog0

\* C11: a document is inserted only when the archive it names is complete
\* in the backup directory: the write of the file precedes the insert, and
\* the document is inserted with status "created".
C11_InsertStep ==
    \A i \in DOMAIN catalog' \ DOMAIN catalog :
        /\ catalog'[i].filename \in files
        /\ catalog'[i].filename \in files'
        /\ catalog'[i].filename = backupFile
        /\ catalog'[i].status = "created"

C11_FileBeforeRecord == [][C11_InsertStep]_vars

C11_Witness ==
    /\ pc = "delay"
    /\ Len(catalog) = Len(obs.catalog0) + 1
    /\ catalog[Len(catalog)].filename = backupFile
    /\ backupFile \in files

\* C12: the restore tool runs only after docker stop succeeded in the same
\* restore; when docker stop fails the restore tool is not run, docker
\* start is not issued, and collection and container stay as they were.
C12_NoRestoreWithoutStop ==
    /\ pc \in {"quiesce", "mongorestore"} =>
          obs.stopCalls = 1 /\ obs.failed = "none" /\ container = "stopped"
    /\ obs.runCalls > 0 =>
          obs.runCalls = 1 /\ obs.stopCalls = 1 /\ obs.failed # "stop"
    /\ obs.failed = "stop" =>
          /\ obs.runCalls = 0
          /\ obs.startCalls = 0
          /\ catalog = obs.catalog0
          /\ container = obs.container0
          /\ pc \in {"catch", "probe"}

C12_Witness ==
    /\ Slept
    /\ obs.failed = "stop"
    /\ backup # <<>>
    /\ container = "running"

\* C13: whatever fails in an iteration, the loop comes back to the top of
\* while (true), where the next iteration begins.
C13_LoopContinues == (pc # "probe") ~> (pc = "probe")

C13_Witness ==
    /\ Slept
    /\ obs.failed = "start"
    /\ container = "stopped"

\* C14: the probe, the insert and the restore close the connection they
\* opened on every path: no connection is open outside the three calls,
\* in particular during the sleep between ticks.
C14_ConnectionsClosed ==
    /\ openConns \in {0, 1}
    /\ pc \in {"count", "findOne", "stop", "quiesce", "mongorestore",
               "update", "start", "insert"} => openConns = 1
    /\ pc \in {"probe", "dialog", "restore", "capture", "write", "register",
               "delay", "catch"} => openConns = 0

C14_Witness ==
    /\ pc = "catch"
    /\ obs.failed = "updateOne"
    /\ openConns = 0

\* C15: when the restore tool fails after the container was stopped, the
\* selected document keeps status "created", docker start is not issued,
\* the container stays stopped, and the exception reaches the loop.
C15_FailedRestoreLeavesStopped ==
    obs.failed = "mongorestore" =>
        /\ obs.stopCalls = 1
        /\ obs.startCalls = 0
        /\ container = "stopped"
        /\ catalog = obs.catalog0
        /\ \E i \in DOMAIN catalog :
              catalog[i] = backup[1] /\ catalog[i].status = "created"
        /\ pc \in {"catch", "probe"}
        /\ Slept => LastDelay = RETRY_DELAY

C15_Witness ==
    /\ pc = "catch"
    /\ obs.failed = "mongorestore"
    /\ obs.container0 = "running"

\* C16: with the database in the managed container, a tick that starts
\* while the container is stopped does nothing: the probe fails, the
\* dialog is not shown, neither capture nor restore is called, and
\* collection and container stay as they are.
C16_StoppedTicksAreNoOps ==
    (dbInContainer /\ obs.container0 = "stopped") =>
        /\ obs.probe = "error"
        /\ obs.failed = "probe"
        /\ obs.dialogCalls = 0
        /\ obs.captureCalls = 0
        /\ obs.restoreCalls = 0
        /\ container = "stopped"
        /\ catalog = obs.catalog0
        /\ pc \in {"catch", "probe"}

C16_Witness ==
    /\ Slept
    /\ dbInContainer
    /\ obs.container0 = "stopped"
    /\ obs.delays = <<RETRY_DELAY>>

\* C17: once the restore tool has succeeded, docker stop and docker start
\* have each been issued once and the container runs when the iteration
\* reaches its sleep, also when the status update failed.
C17_RestartAfterRestore ==
    (obs.runCalls = 1 /\ obs.failed \in {"none", "updateOne"}
        /\ (AtSleep \/ Slept)) =>
        /\ obs.stopCalls = 1
        /\ obs.startCalls = 1
        /\ container = "running"

\* C18: the agent never exits between the docker stop and the docker start
\* of a restore in progress.
C18_NoExitMidRestore ==
    pc = "exit" =>
        ~(obs.stopCalls = 1 /\ obs.startCalls = 0 /\ obs.failed = "none")

\* C19: a step leaves the collection alone, or (the insert) appends one
\* document and leaves the others alone, or (the update) changes the status
\* of the selected document and nothing else.
C19_CatalogStep ==
    \/ catalog' = catalog
    \/ /\ pc = "insert"
       /\ Len(catalog') = Len(catalog) + 1
       /\ SubSeq(catalog', 1, Len(catalog)) = catalog
    \/ /\ pc = "update"
       /\ \E i \in DOMAIN catalog :
             /\ catalog[i]._id = backup[1]._id
             /\ catalog' = [catalog EXCEPT ![i].status = catalog'[i].status]

C19_AppendOnly == [][C19_CatalogStep]_vars

C19_Witness ==
    /\ pc = "delay"
    /\ Len(catalog) = 2
    /\ Len(obs.catalog0) = 1
    /\ catalog[1] = obs.catalog0[1]
    /\ catalog[2].filename = catalog[1].filename

\* C20: with the database in the managed container, findOne, insertOne and
\* updateOne are issued only while the container runs.
C20_CatalogAccessWhileRunning ==
    (dbInContainer /\ pc \in {"findOne", "insert", "update"}) =>
        container = "running"

====
